---- MODULE Spec2Model ----
(***************************************************************************)
(* A model of the ObjectProperty deserializer of kobold                    *)
(* (kobold/src/object_property/serialization.rs, type_tag.rs).             *)
(*                                                                         *)
(* The deserializer is a recursive descent over a forward-only bit cursor. *)
(* The recursion is modelled with an explicit call stack: one frame for    *)
(* every active deserialize(), deserialize_properties() and                *)
(* deserialize_list(); the leaf decoders are operators.  The content of    *)
(* the buffer is the environment's choice and is made when a field is      *)
(* first read: a forward cursor never reads a byte twice, so the reader    *)
(* state is the number of bytes left and the bits left in the current      *)
(* byte.                                                                   *)
(***************************************************************************)
EXTENDS Integers, Sequences, FiniteSets, TLC

VARIABLES
    options,    \* DeserializerOptions of the Deserializer
    reader,     \* Deserializer.reader: the BitReader over the fed data
    stack,      \* the active calls, outermost first
    err,        \* the error being propagated by `?`, or "none"
    result,     \* what the last top-level deserialize() returned
    phase,      \* "new" | "fed" | "failed" (feed_data) | "panicked"
    calls,      \* number of top-level deserialize() calls made so far
    fed,        \* record of the last feed_data() call
    lastCall,   \* record of the last deserialize() invocation that returned
    lastProps,  \* record of the last deserialize_properties() that returned
    lastEntry,  \* record of the last size check of the exhaustive walk
    lastData,   \* record of the last deserialize_property() dispatch
    configured, \* the recursion_limit the Deserializer was constructed with
    probe       \* a leaf decoder applied to a given buffer, and its outcome

vars == <<options, reader, stack, err, result, phase, calls, fed, lastCall,
          lastProps, lastEntry, lastData, configured, probe>>

----------------------------------------------------------------------------
(* Bounds of the model.                                                    *)

\* Longest buffer (outer stream or decompressed body), in bytes.
MaxInputLen == 20
\* Largest recursion_limit a Deserializer is constructed with.
MaxLimit == 2
\* Top-level deserialize() calls made on one Deserializer.
MaxCalls == 3
\* The rounds of a given stream of properties.
MaxRounds == 3

----------------------------------------------------------------------------
(* SerializerFlags, as bits of a u32.                                      *)

STATEFUL_FLAGS == 1
COMPACT_LENGTH_PREFIXES == 2
HUMAN_READABLE_ENUMS == 4
WITH_COMPRESSION == 8
FORBID_DELTA_ENCODE == 16

\* bitflags' `all()`: the union of the five defined bits.
AllSerializerFlags ==
    STATEFUL_FLAGS + COMPACT_LENGTH_PREFIXES + HUMAN_READABLE_ENUMS
        + WITH_COMPRESSION + FORBID_DELTA_ENCODE

\* flags.contains(bit), for a single-bit flag.
Contains(flags, bit) == (flags \div bit) % 2 = 1

\* SerializerFlags::from_bits_truncate: drops every bit that is no flag.
from_bits_truncate(v) == v % (AllSerializerFlags + 1)

U8Max == 255

----------------------------------------------------------------------------
(* The values the environment stores in the fields the deserializer reads. *)

\* u32 fields: hashes, sizes, lengths, flags, enum values.  TLC's integers
\* are 32 bits wide and signed, so the modelled fields stay below 2^31; the
\* large one is 0x4000001F.
U32Vals == {0, 1, 2, 3, 4, 9, 11, 12, 16, 1073741855}
U16Vals == {0, 1, 65535}
\* i8/i16/i32 fields.
I8Vals == {-1, 65}
I16Vals == {-1, 1}
I32Vals == {-1, 7}
\* u8 fields; 65 is the letter A, 255 is no valid UTF-8.
U8Vals == {0, 65, U8Max}
U64Vals == {0, 1}
\* f32/f64 fields, as their bit patterns.
FloatVals == {0, 1065353216}

\* The values of an n-bit field, n >= 2: the last is 2^n - 1.
BitsVals(n) == {0, 1, 2 ^ (n - 1), (2 ^ (n - 1) - 1) + 2 ^ (n - 1)}

----------------------------------------------------------------------------
(* BitReader.  A reader over fed data is [len, bits]: `len` whole bytes    *)
(* not yet touched and `bits` unread bits of the byte the cursor is in;    *)
(* what the bytes hold is chosen when they are read.  A reader over a      *)
(* given buffer is [bytes, pos]: the bytes and the number of bits consumed,*)
(* least significant bit of each byte first.  len() counts a byte as read  *)
(* as soon as one of its bits is.                                          *)

NewReader(n) == [len |-> n, bits |-> 0]

\* BitReader::new(bytes) over given bytes.
ReaderOver(bytes) == [bytes |-> bytes, pos |-> 0]

Given(r) == "bytes" \in DOMAIN r

ReaderLen(r) ==
    IF Given(r) THEN Len(r.bytes) - (r.pos + 7) \div 8 ELSE r.len

\* The unread bits of a reader.
BitsLeft(r) ==
    IF Given(r) THEN 8 * Len(r.bytes) - r.pos ELSE 8 * r.len + r.bits

\* The outcome of a read: the value and the cursor after it, or the error.
Ok(v, r) == [ok |-> TRUE, e |-> "none", r |-> r, v |-> v]
Fail(e, r) == [ok |-> FALSE, e |-> e, r |-> r]

\* `a.and_then(F)` / `let x = a?; F(x)` over every outcome of `a`.
Then(S, F(_)) == UNION {IF o.ok THEN F(o) ELSE {o} : o \in S}

realign_to_byte(r) ==
    IF Given(r) THEN [r EXCEPT !.pos = 8 * ((@ + 7) \div 8)]
    ELSE [r EXCEPT !.bits = 0]

\* Bit i of a buffer: bit i % 8 of byte i \div 8, counted from the least
\* significant.
BitAt(bytes, i) == (bytes[i \div 8 + 1] \div 2 ^ (i % 8)) % 2

\* The n bits from bit `pos` on, the first of them the least significant.
RECURSIVE BitsAt(_, _, _)
BitsAt(bytes, pos, n) ==
    IF n = 0 THEN 0
    ELSE BitAt(bytes, pos) + 2 * BitsAt(bytes, pos + 1, n - 1)

read_bit(r) ==
    IF Given(r)
    THEN IF r.pos + 1 > 8 * Len(r.bytes)
         THEN {Fail("UnexpectedEof", r)}
         ELSE {Ok(BitAt(r.bytes, r.pos) = 1, [r EXCEPT !.pos = @ + 1])}
    ELSE IF r.bits > 0
    THEN {Ok(b, [r EXCEPT !.bits = @ - 1]) : b \in BOOLEAN}
    ELSE IF r.len > 0
    THEN {Ok(b, [len |-> r.len - 1, bits |-> 7]) : b \in BOOLEAN}
    ELSE {Fail("UnexpectedEof", r)}

\* The cursor after n more bits (n at most the bits left).
Advance(r, n) ==
    IF n <= r.bits
    THEN [r EXCEPT !.bits = @ - n]
    ELSE LET need == n - r.bits
             bytes == (need + 7) \div 8
         IN  [len |-> r.len - bytes, bits |-> bytes * 8 - need]

read_value_bits(r, n) ==
    IF Given(r)
    THEN IF r.pos + n > 8 * Len(r.bytes)
         THEN {Fail("UnexpectedEof", r)}
         ELSE {Ok(BitsAt(r.bytes, r.pos, n), [r EXCEPT !.pos = @ + n])}
    ELSE IF n > r.bits + 8 * r.len
    THEN {Fail("UnexpectedEof", r)}
    ELSE {Ok(v, Advance(r, n)) : v \in BitsVals(n)}

\* The little-endian value of the n bytes from byte `at` on (at most 4
\* bytes, the value below 2^31), two's complement when `signed`.
RECURSIVE LittleEndian(_, _, _, _)
LittleEndian(bytes, at, n, signed) ==
    IF n = 1
    THEN IF signed /\ bytes[at] >= 128 THEN bytes[at] - 256 ELSE bytes[at]
    ELSE bytes[at] + 256 * LittleEndian(bytes, at + 1, n - 1, signed)

\* A byte-aligned load of n bytes; from fed data it holds one of `vals`.
Load(r, n, vals) ==
    LET a == realign_to_byte(r)
    IN  IF Given(r)
        THEN IF a.pos + 8 * n > 8 * Len(a.bytes)
             THEN {Fail("UnexpectedEof", a)}
             ELSE {Ok(LittleEndian(a.bytes, a.pos \div 8 + 1, n,
                                   \E v \in vals : v < 0),
                      [a EXCEPT !.pos = @ + 8 * n])}
        ELSE IF a.len < n
        THEN {Fail("UnexpectedEof", a)}
        ELSE {Ok(v, [a EXCEPT !.len = @ - n]) : v \in vals}

load_u8(r) == Load(r, 1, U8Vals)
load_u16(r) == Load(r, 2, U16Vals)
load_u32(r) == Load(r, 4, U32Vals)
load_u64(r) == Load(r, 8, U64Vals)
load_i8(r) == Load(r, 1, I8Vals)
load_i16(r) == Load(r, 2, I16Vals)
load_i32(r) == Load(r, 4, I32Vals)
load_f32(r) == Load(r, 4, FloatVals)
load_f64(r) == Load(r, 8, FloatVals)

\* All byte strings of length n over U8Vals.
RECURSIVE ByteStrings(_)
ByteStrings(n) ==
    IF n = 0 THEN {<<>>}
    ELSE {Append(s, b) : s \in ByteStrings(n - 1), b \in U8Vals}

read_bytes(r, n) ==
    IF ReaderLen(r) < n
    THEN {Fail("UnexpectedEof", r)}
    ELSE IF Given(r)
    THEN LET at == (r.pos + 7) \div 8
         IN  {Ok(SubSeq(r.bytes, at + 1, at + n),
                 [r EXCEPT !.pos = 8 * (at + n)])}
    ELSE {Ok(s, [r EXCEPT !.len = @ - n]) : s \in ByteStrings(n)}

----------------------------------------------------------------------------
(* Value: the dynamically typed tree the deserializer produces.            *)

Empty == [tag |-> "Empty"]
\* Each variant keeps its payload in a field of its own.
Bool(b) == [tag |-> "Bool", b |-> b]
Signed(i) == [tag |-> "Signed", i |-> i]
Unsigned(u) == [tag |-> "Unsigned", u |-> u]
Float(f) == [tag |-> "Float", f |-> f]
String(s) == [tag |-> "String", s |-> s]
WString(s) == [tag |-> "WString", w |-> s]
Enum(s) == [tag |-> "Enum", e |-> s]
Object(name, inner) == [tag |-> "Object", name |-> name, inner |-> inner]
List(inner) == [tag |-> "List", inner |-> inner]
Tuple(tag, vs) == [tag |-> tag, vs |-> vs]

\* BTreeMap::new() and BTreeMap::insert: one entry per key, the last wins.
EmptyMap == [n \in {} |-> Empty]

\* An insert that keeps the value of a key that is already there.
MapInsertFirst(m, k, v) ==
    [n \in DOMAIN m \cup {k} |-> IF n \in DOMAIN m THEN m[n] ELSE v]

MapInsert(m, k, v) ==
    [n \in DOMAIN m \cup {k} |-> IF n = k THEN v ELSE m[n]]

----------------------------------------------------------------------------
(* The type registry the deserializer is constructed with.                 *)

IntOpt(name, v) == [name |-> name, int |-> TRUE, v |-> v]
StrOpt(name) == [name |-> name, int |-> FALSE, v |-> 0]

Prop(name, hash, type, flags, dynamic, enum_options) ==
    [name |-> name, hash |-> hash, type |-> type, flags |-> flags,
     dynamic |-> dynamic, enum_options |-> enum_options]

\* The property of a frame or record that has none yet.
NoProperty == Prop("", 0, "", {}, FALSE, <<>>)

Transmit == {"TRANSMIT", "PRIVILEGED_TRANSMIT"}

NodeDef ==
    [name |-> "class Node",
     properties |-> <<
        Prop("m_flag", 1, "bool", Transmit, FALSE, <<>>),
        Prop("m_next", 2, "class Node*", Transmit, FALSE, <<>>),
        Prop("m_kids", 3, "class Node*", Transmit, TRUE, <<>>) >>]

LeafDef ==
    [name |-> "class Leaf",
     properties |-> <<
        Prop("m_kind", 1, "enum Kind", Transmit \cup {"ENUM"}, FALSE,
             <<IntOpt("Red", 1), StrOpt("Alias"), IntOpt("Green", 2),
               IntOpt("Crimson", 1)>>),
        Prop("m_gone", 9, "unsigned char", Transmit \cup {"DEPRECATED"},
             FALSE, <<>>),
        Prop("m_mask", 2, "Mask", Transmit \cup {"BITS"}, FALSE,
             <<IntOpt("A", 1), IntOpt("B", 2), IntOpt("AB", 3),
               StrOpt("None")>>),
        Prop("m_owner", 11, "unsigned char", {"PRIVILEGED_TRANSMIT"}, FALSE,
             <<>>),
        Prop("m_name", 3, "std::string", Transmit, FALSE, <<>>),
        Prop("m_count", 4, "int", Transmit \cup {"DELTA_ENCODE"}, FALSE,
             <<>>) >>]

BoxDef ==
    [name |-> "class Box",
     properties |-> <<
        Prop("m_size", 1, "class Size<int>", Transmit, FALSE, <<>>),
        Prop("m_info", 2, "class SizeInfo", Transmit, FALSE, <<>>),
        Prop("m_old", 3, "unsigned char", Transmit \cup {"DEPRECATED"},
             FALSE, <<>>),
        Prop("m_local", 4, "unsigned char", {"TRANSMIT"}, FALSE, <<>>) >>]

\* TypeList.list: hash -> TypeDef.
types == (1 :> NodeDef) @@ (2 :> LeafDef) @@ (3 :> BoxDef)

----------------------------------------------------------------------------
(* Text helpers for the type-name dispatcher.                              *)

starts_with(s, p) == Len(s) >= Len(p) /\ SubSeq(s, 1, Len(p)) = p

\* Positions of the character c in s.
Positions(s, c) == {i \in 1 .. Len(s) : SubSeq(s, i, i) = c}

Min(S) == CHOOSE x \in S : \A y \in S : x <= y
Max(S) == CHOOSE x \in S : \A y \in S : x >= y

None == [some |-> FALSE, v |-> ""]
Some(v) == [some |-> TRUE, v |-> v]

\* ty.split_once('<')?.1, then .rsplit_once('>')?.0
extract_type_argument(ty) ==
    IF Positions(ty, "<") = {} THEN None
    ELSE LET generic == SubSeq(ty, Min(Positions(ty, "<")) + 1, Len(ty))
         IN  IF Positions(generic, ">") = {} THEN None
             ELSE Some(SubSeq(generic, 1, Max(Positions(generic, ">")) - 1))

----------------------------------------------------------------------------
(* Length prefixes and strings.                                            *)

\* A compact prefix that takes a whole byte for a small length.
read_compact_length_prefix_wide(r) ==
    Then(read_bit(r), LAMBDA o :
        IF o.v THEN read_value_bits(o.r, 31) ELSE read_value_bits(o.r, 8))

read_compact_length_prefix(r) ==
    Then(read_bit(r), LAMBDA o :
        IF o.v THEN read_value_bits(o.r, 31) ELSE read_value_bits(o.r, 7))

\* impl_read_len!: read_str_len() = load_u16(), read_seq_len() = load_u32()
read_str_len(r, flags) ==
    IF Contains(flags, COMPACT_LENGTH_PREFIXES)
    THEN read_compact_length_prefix(realign_to_byte(r))
    ELSE load_u16(realign_to_byte(r))

read_seq_len(r, flags) ==
    IF Contains(flags, COMPACT_LENGTH_PREFIXES)
    THEN read_compact_length_prefix(realign_to_byte(r))
    ELSE load_u32(realign_to_byte(r))

read_str(r, flags) ==
    Then(read_str_len(r, flags), LAMBDA o : read_bytes(o.r, o.v))

\* n loads in a row, collected in order; `kind` names the load.
LoadKind(r, kind) ==
    CASE kind = "u8" -> load_u8(r)
      [] kind = "u16" -> load_u16(r)
      [] kind = "f32" -> load_f32(r)

RECURSIVE LoadMany(_, _, _, _)
LoadMany(r, kind, n, acc) ==
    IF n = 0 THEN {Ok(acc, r)}
    ELSE Then(LoadKind(r, kind), LAMBDA o :
            LoadMany(o.r, kind, n - 1, Append(acc, o.v)))

read_wstr(r, flags) ==
    Then(read_str_len(r, flags), LAMBDA o :
        IF 2 * o.v > ReaderLen(o.r)
        THEN {Fail("UnexpectedEof",
                   IF Given(o.r) THEN o.r ELSE NewReader(o.r.len % 2))}
        ELSE LoadMany(o.r, "u16", o.v, <<>>))

----------------------------------------------------------------------------
(* Bit integers.                                                           *)

deserialize_bits(r, n) == read_value_bits(r, n)

\* A sign-extension that tests 1 << n.
sign_extend_above(v, n) ==
    IF (v \div 2 ^ n) % 2 # 0 THEN (v % 2 ^ n) - 2 ^ n ELSE v

\* The sign-extension of deserialize_signed_bits: when v & (1 << (n - 1))
\* is not 0, (v as i64) | ((!0) << n), the i64 with the low n bits of v and
\* ones above them, which is (v % 2^n) - 2^n; else v.
sign_extend(v, n) ==
    IF (v \div 2 ^ (n - 1)) % 2 # 0 THEN (v % 2 ^ n) - 2 ^ n ELSE v

deserialize_signed_bits(r, n) ==
    {IF o.ok THEN [o EXCEPT !.v = sign_extend(@, n)] ELSE o
     : o \in deserialize_bits(r, n)}

----------------------------------------------------------------------------
(* The type-name dispatcher.                                               *)

\* `.map(F)` on a leaf read.
MapOk(S, F(_)) == {IF o.ok THEN [o EXCEPT !.v = F(o.v)] ELSE o : o \in S}

BitWidth(ty) ==
    CASE ty \in {"bi2", "bui2"} -> 2
      [] ty \in {"bi3", "bui3"} -> 3
      [] ty \in {"bi4", "bui4"} -> 4
      [] ty \in {"bi5", "bui5"} -> 5
      [] ty \in {"bi6", "bui6"} -> 6
      [] ty \in {"bi7", "bui7"} -> 7
      [] ty \in {"s24", "u24"} -> 24

RECURSIVE deserialize_simple_data(_, _, _)

\* n decodes of the type argument of ty, collected in order.
RECURSIVE Components(_, _, _, _, _)
Components(r, flags, ty_arg, n, acc) ==
    IF n = 0 THEN {Ok(acc, r)}
    ELSE Then(deserialize_simple_data(r, flags, ty_arg), LAMBDA o :
            Components(o.r, flags, ty_arg, n - 1, Append(acc, o.v)))

\* extract_type_argument(s).unwrap(), then n decodes of it.
Parametric(r, flags, ty, tag, n) ==
    LET ty_arg == extract_type_argument(ty)
    IN  IF ~ty_arg.some
        THEN {Fail("panic", r)}
        ELSE MapOk(Components(r, flags, ty_arg.v, n, <<>>),
                   LAMBDA vs : Tuple(tag, vs))

deserialize_simple_data(r, flags, ty) ==
    CASE ty = "bool" -> MapOk(read_bit(r), Bool)
      [] ty = "char" -> MapOk(load_i8(r), Signed)
      [] ty = "unsigned char" -> MapOk(load_u8(r), Unsigned)
      [] ty = "short" -> MapOk(load_i16(r), Signed)
      [] ty \in {"unsigned short", "wchar_t"} -> MapOk(load_u16(r), Unsigned)
      [] ty \in {"int", "long"} -> MapOk(load_i32(r), Signed)
      [] ty \in {"unsigned int", "unsigned long"} ->
            MapOk(load_u32(r), Unsigned)
      [] ty = "float" -> MapOk(load_f32(r), Float)
      [] ty = "double" -> MapOk(load_f64(r), Float)
      [] ty \in {"unsigned __int64", "gid", "union gid"} ->
            MapOk(load_u64(r), Unsigned)
      [] ty \in {"bi2", "bi3", "bi4", "bi5", "bi6", "bi7", "s24"} ->
            MapOk(deserialize_signed_bits(r, BitWidth(ty)), Signed)
      [] ty \in {"bui2", "bui3", "bui4", "bui5", "bui6", "bui7", "u24"} ->
            MapOk(deserialize_bits(r, BitWidth(ty)), Unsigned)
      [] ty \in {"std::string", "char*"} -> MapOk(read_str(r, flags), String)
      [] ty \in {"std::wstring", "wchar_t*"} ->
            MapOk(read_wstr(r, flags), WString)
      [] ty = "class Color" ->
            MapOk(LoadMany(r, "u8", 4, <<>>), LAMBDA vs : Tuple("Color", vs))
      [] ty = "class Vector3D" ->
            MapOk(LoadMany(r, "f32", 3, <<>>), LAMBDA vs : Tuple("Vec3", vs))
      [] ty = "class Quaternion" ->
            MapOk(LoadMany(r, "f32", 4, <<>>), LAMBDA vs : Tuple("Quat", vs))
      [] ty = "class Euler" ->
            MapOk(LoadMany(r, "f32", 3, <<>>), LAMBDA vs : Tuple("Euler", vs))
      [] ty = "class Matrix3x3" ->
            MapOk(LoadMany(r, "f32", 9, <<>>), LAMBDA vs : Tuple("Mat3x3", vs))
      [] OTHER ->
            IF starts_with(ty, "class Size")
            THEN Parametric(r, flags, ty, "Size", 2)
            ELSE IF starts_with(ty, "class Point")
            THEN Parametric(r, flags, ty, "Point", 2)
            ELSE IF starts_with(ty, "class Rect")
            THEN Parametric(r, flags, ty, "Rect", 4)
            ELSE {Fail("NotSimple", r)}

----------------------------------------------------------------------------
(* The enum / bitflag decoder.                                             *)

\* String::from_utf8 over the modelled bytes: 255 is never valid.
Utf8Char(b) == IF b = 65 THEN "A" ELSE "<NUL>"

RECURSIVE from_utf8(_)
from_utf8(bytes) ==
    IF bytes = <<>> THEN Some("")
    ELSE IF Head(bytes) = U8Max THEN None
    ELSE LET rest == from_utf8(Tail(bytes))
         IN  IF rest.some THEN Some(Utf8Char(Head(bytes)) \o rest.v) ELSE None

\* A find that keeps the last option whose value is Int(value).
FindVariantLast(enum_options, value) ==
    LET hits == {i \in 1 .. Len(enum_options) :
                    enum_options[i].int /\ enum_options[i].v = value}
    IN  IF hits = {} THEN None ELSE Some(enum_options[Max(hits)].name)

\* enum_options.iter().find(|(_, v)| v is Int(value)): the first such option.
FindVariant(enum_options, value) ==
    LET hits == {i \in 1 .. Len(enum_options) :
                    enum_options[i].int /\ enum_options[i].v = value}
    IN  IF hits = {} THEN None ELSE Some(enum_options[Min(hits)].name)

\* the `for b in 0..u32::BITS` loop of the bitflag branch, from bit b on
\* (bit 31 of a modelled value is clear)
RECURSIVE BitsLoop(_, _, _, _, _)
BitsLoop(b, bits, first, value, enum_options) ==
    IF b = 32 THEN Some(bits)
    ELSE LET sep == IF ~first THEN bits \o " | " ELSE bits
         IN  IF b < 31 /\ (value \div 2 ^ b) % 2 # 0
             THEN LET variant == FindVariant(enum_options, value)
                  IN  IF ~variant.some THEN None
                      ELSE BitsLoop(b + 1, sep \o variant.v, FALSE, value,
                                    enum_options)
             ELSE BitsLoop(b + 1, sep, first, value, enum_options)

\* An outcome together with the u32 it was decoded from (-1: none read).
Raw(o, raw) ==
    IF o.ok
    THEN [ok |-> TRUE, e |-> o.e, r |-> o.r, v |-> o.v, raw |-> raw]
    ELSE [ok |-> FALSE, e |-> o.e, r |-> o.r, raw |-> raw]

deserialize_enum_variant(r, flags, property) ==
    IF Contains(flags, HUMAN_READABLE_ENUMS)
    THEN {IF ~o.ok THEN Raw(o, -1)
          ELSE LET value == from_utf8(o.v)
               IN  IF ~value.some THEN Raw(Fail("InvalidUtf8", o.r), -1)
                   ELSE IF "ENUM" \in property.flags
                   THEN Raw(Ok(Enum(property.type \o "::" \o value.v), o.r), -1)
                   ELSE Raw(Ok(Enum(value.v), o.r), -1)
          : o \in read_str(r, flags)}
    ELSE {IF ~o.ok THEN Raw(o, -1)
          ELSE IF "ENUM" \in property.flags
          THEN LET variant == FindVariant(property.enum_options, o.v)
               IN  IF ~variant.some
                   THEN Raw(Fail("UnknownEnumVariant", o.r), o.v)
                   ELSE Raw(Ok(Enum(property.type \o "::" \o variant.v), o.r),
                            o.v)
          ELSE LET bits == BitsLoop(0, "", TRUE, o.v, property.enum_options)
               IN  IF ~bits.some
                   THEN Raw(Fail("UnknownEnumVariant", o.r), o.v)
                   ELSE Raw(Ok(Enum(bits.v), o.r), o.v)
          : o \in load_u32(r)}

----------------------------------------------------------------------------
(* feed_data and the decompression stage.                                  *)
(* An outcome records the reads in order: `log` is the sequence of fields  *)
(* taken, each with the stream it was taken from.                          *)

Took(what, from, v) == [what |-> what, from |-> from, v |-> v]

\* `over` names the buffer the new reader is over: the outer stream
\* ("outer") or the scratch buffer ("body").
FeedOk(flags, r, log, over) ==
    [ok |-> TRUE, e |-> "none", flags |-> flags, r |-> r, log |-> log,
     over |-> over]
FeedFail(e, flags, log) ==
    [ok |-> FALSE, e |-> e, flags |-> flags, r |-> NewReader(0), log |-> log,
     over |-> "none"]

\* zlib_decompress: an io error, or a body of some length.
zlib_decompress(n) ==
    {[ok |-> FALSE, len |-> 0]}
        \cup {[ok |-> TRUE, len |-> m] : m \in 0 .. MaxInputLen}

\* decompress_data without the comparison of the produced length.
decompress_data_unsized(n, flags, log) ==
    IF n < 4 THEN {FeedFail("UnexpectedEof", flags, log)}
    ELSE UNION {
        LET log1 == Append(log, Took("size", "outer", size))
        IN  {IF ~z.ok
             THEN FeedFail("Zlib", flags,
                           Append(log1, Took("zlib", "outer", -1)))
             ELSE FeedOk(flags, NewReader(z.len),
                         Append(log1, Took("zlib", "outer", z.len)), "body")
             : z \in zlib_decompress(n - 4)}
        : size \in U32Vals}

\* decompress_data on `n` bytes left of the outer stream.
decompress_data(n, flags, log) ==
    IF n < 4 THEN {FeedFail("UnexpectedEof", flags, log)}
    ELSE UNION {
        LET log1 == Append(log, Took("size", "outer", size))
        IN  {IF ~z.ok
             THEN FeedFail("Zlib", flags,
                           Append(log1, Took("zlib", "outer", -1)))
             ELSE IF z.len # size
             THEN FeedFail("CompressionSize", flags,
                           Append(log1, Took("zlib", "outer", z.len)))
             ELSE FeedOk(flags, NewReader(z.len),
                         Append(log1, Took("zlib", "outer", z.len)), "body")
             : z \in zlib_decompress(n - 4)}
        : size \in U32Vals}

\* `?` on a feed outcome, then F.
FeedThen(S, F(_)) == UNION {IF o.ok THEN F(o) ELSE {o} : o \in S}

\* feed_data, manual_compression branch.
feed_manual(opts, n) ==
    FeedThen(decompress_data(n, opts.flags, <<>>), LAMBDA d :
        IF Contains(opts.flags, STATEFUL_FLAGS)
        THEN {IF o.ok
              THEN FeedOk(from_bits_truncate(o.v), o.r,
                          Append(d.log, Took("flags", "body", o.v)), "body")
              ELSE FeedFail(o.e, opts.flags, d.log)
              : o \in load_u32(d.r)}
        ELSE {d})

\* feed_data, else branch: the stateful flags, read from the outer stream.
load_stateful_flags(opts, n) ==
    IF Contains(opts.flags, STATEFUL_FLAGS)
    THEN IF n < 4
         THEN {FeedFail("UnexpectedEof", opts.flags, <<>>)}
         ELSE {FeedOk(from_bits_truncate(v), NewReader(n - 4),
                      <<Took("flags", "outer", v)>>, "outer")
               : v \in U32Vals}
    ELSE {FeedOk(opts.flags, NewReader(n), <<>>, "outer")}

\* A choice of reader that looks at the flags as they were configured.
select_reader_stale(opts, f) ==
    IF Contains(opts.flags, WITH_COMPRESSION)
    THEN IF f.r.len < 1
         THEN {FeedFail("UnexpectedEof", f.flags, f.log)}
         ELSE UNION {
                LET log1 == Append(f.log, Took("marker", "outer", m))
                IN  IF m # 0
                    THEN decompress_data(f.r.len - 1, f.flags, log1)
                    ELSE {FeedOk(f.flags, NewReader(f.r.len - 1), log1,
                                 "outer")}
                : m \in U8Vals}
    ELSE {f}

\* feed_data, else branch: "Determine whether the data is compressed or
\* not", with `f` the outcome of load_stateful_flags.
select_reader(opts, f) ==
    IF Contains(f.flags, WITH_COMPRESSION)
    THEN IF f.r.len < 1
         THEN {FeedFail("UnexpectedEof", f.flags, f.log)}
         ELSE UNION {
                LET log1 == Append(f.log, Took("marker", "outer", m))
                IN  IF m # 0
                    THEN decompress_data(f.r.len - 1, f.flags, log1)
                    ELSE {FeedOk(f.flags, NewReader(f.r.len - 1), log1,
                                 "outer")}
                : m \in U8Vals}
    ELSE {f}

\* feed_data(data, scratch) for a `data` of n bytes.
feed_data(opts, n) ==
    IF opts.manual_compression
    THEN feed_manual(opts, n)
    ELSE FeedThen(load_stateful_flags(opts, n),
                  LAMBDA f : select_reader(opts, f))

----------------------------------------------------------------------------
(* deserialize_property and deserialize_data, up to the point where they   *)
(* return a leaf, fail, or call deserialize_list / deserialize.            *)

Step(kind, v, r, e, raw) ==
    [kind |-> kind, v |-> v, r |-> r, e |-> e, raw |-> raw, delta |-> "none"]

\* What became of the presence bit of a DELTA_ENCODE property.
Delta(step, delta) == [step EXCEPT !.delta = delta]

\* deserialize_data: `kind` is "val" (a leaf was decoded), "err" (a failure
\* that propagates), "call" (deserialize() is called; `e` is the failure of
\* deserialize_simple_data that or_else caught) or "panic".
deserialize_data(r, flags, property) ==
    IF property.flags \cap {"BITS", "ENUM"} # {}
    THEN {IF o.ok THEN Step("val", o.v, o.r, "none", o.raw)
                  ELSE Step("err", Empty, o.r, o.e, o.raw)
          : o \in deserialize_enum_variant(r, flags, property)}
    ELSE {IF o.ok THEN Step("val", o.v, o.r, "none", -1)
          ELSE IF o.e = "panic" THEN Step("panic", Empty, o.r, o.e, -1)
          ELSE Step("call", Empty, o.r, o.e, -1)
          : o \in deserialize_simple_data(r, flags, property.type)}

\* A deserialize_property that returns Empty for an absent value whatever
\* the flags say.
deserialize_property_lenient(r, flags, property) ==
    LET rest(r1) ==
            IF property.dynamic
            THEN {Step("list", Empty, r1, "none", -1)}
            ELSE deserialize_data(r1, flags, property)
    IN  IF "DELTA_ENCODE" \in property.flags
        THEN UNION {
                IF ~o.ok THEN {Delta(Step("err", Empty, o.r, o.e, -1), "eof")}
                ELSE IF ~o.v
                THEN {Delta(Step("val", Empty, o.r, "none", -1), "absent")}
                ELSE {Delta(step, "present") : step \in rest(o.r)}
                : o \in read_bit(r)}
        ELSE rest(r)

\* deserialize_property: as deserialize_data, and "list" when
\* deserialize_list is called.
deserialize_property(r, flags, property) ==
    LET rest(r1) ==
            IF property.dynamic
            THEN {Step("list", Empty, r1, "none", -1)}
            ELSE deserialize_data(r1, flags, property)
    IN  IF "DELTA_ENCODE" \in property.flags
        THEN UNION {
                IF ~o.ok THEN {Delta(Step("err", Empty, o.r, o.e, -1), "eof")}
                ELSE IF ~o.v
                THEN IF Contains(flags, FORBID_DELTA_ENCODE)
                     THEN {Delta(Step("err", Empty, o.r, "MissingDelta", -1),
                                 "absent")}
                     ELSE {Delta(Step("val", Empty, o.r, "none", -1),
                                 "absent")}
                ELSE {Delta(step, "present") : step \in rest(o.r)}
                : o \in read_bit(r)}
        ELSE rest(r)

----------------------------------------------------------------------------
(* Call frames.                                                            *)

\* deserialize(); `cause` is why it was called: "top", or the failure of
\* deserialize_simple_data it is the fallback of.
DFrame(cause, limit, len) ==
    [fn |-> "deserialize", pc |-> "check", cause |-> cause,
     entry_limit |-> limit, entry_len |-> len, hash |-> -1,
     name |-> "", res |-> Empty]

\* deserialize_properties(object_size, type_def); `todo` are the properties
\* the shallow walk has still to visit.  `visited` lists the properties
\* decoded so far: the unread bits at the head of the round (`head`), where
\* the value starts (`start`) and where it ends (`to`), and the value.
PFrame(type_def, object_size, todo) ==
    [fn |-> "deserialize_properties", pc |-> "loop", type_def |-> type_def,
     object_size |-> object_size, object |-> EmptyMap, todo |-> todo,
     previous_buf_len |-> 0, property_size |-> 0,
     property |-> NoProperty,
     value |-> Empty, declared |-> object_size, sum |-> 0,
     exceeded |-> FALSE, head |-> 0, start |-> 0, visited |-> <<>>]

\* deserialize_list(property)
LFrame(property) ==
    [fn |-> "deserialize_list", pc |-> "len", property |-> property,
     len |-> 0, i |-> 0, list |-> <<>>]

Top == stack[Len(stack)]
Pop(stk) == SubSeq(stk, 1, Len(stk) - 1)
SetTop(stk, f) == [stk EXCEPT ![Len(stk)] = f]
Push(stk, f) == Append(stk, f)

Running == phase = "fed" /\ stack # <<>> /\ err = "none"

\* The caller's frame once the callee has returned v to it.
Deliver(caller, v) ==
    CASE caller.fn = "deserialize" ->
            [caller EXCEPT !.pc = "exit", !.res = Object(caller.name, v)]
      [] caller.fn = "deserialize_properties" ->
            [caller EXCEPT !.pc = "got", !.value = v]
      [] caller.fn = "deserialize_list" ->
            [caller EXCEPT !.list = Append(@, v), !.i = @ + 1]

\* The stack after its top frame has returned v.
Return(stk, v) ==
    IF Len(stk) = 1 THEN <<>>
    ELSE SetTop(Pop(stk), Deliver(stk[Len(stk) - 1], v))

\* A filter that takes a property sharing any flag with the mask.
RECURSIVE MaskedAny(_, _)
MaskedAny(properties, mask) ==
    IF properties = <<>> THEN <<>>
    ELSE LET p == Head(properties)
             rest == MaskedAny(Tail(properties), mask)
         IN  IF mask \cap p.flags # {} /\ "DEPRECATED" \notin p.flags
             THEN <<p>> \o rest ELSE rest

\* The properties a shallow walk visits, in declaration order.
RECURSIVE Masked(_, _)
Masked(properties, mask) ==
    IF properties = <<>> THEN <<>>
    ELSE LET p == Head(properties)
             rest == Masked(Tail(properties), mask)
         IN  IF mask \subseteq p.flags /\ "DEPRECATED" \notin p.flags
             THEN <<p>> \o rest ELSE rest

\* type_def.properties.iter().find(|p| p.hash == property_hash)
FindProperty(properties, property_hash) ==
    LET hits == {i \in 1 .. Len(properties) :
                    properties[i].hash = property_hash}
    IN  IF hits = {} THEN None ELSE Some(properties[Min(hits)])

----------------------------------------------------------------------------
(* The object-identity strategy PropertyClass and the scalar reads.        *)

deserialize_u32(r) == load_u32(r)
deserialize_bool(r) == read_bit(r)

Resolved(ok, e, r, hash, def) ==
    [ok |-> ok, e |-> e, r |-> r, hash |-> hash, def |-> def]

\* An identity strategy that looks every hash up, 0 included.
object_identity_lookup(r) ==
    {IF ~o.ok THEN Resolved(FALSE, o.e, o.r, -1, None)
     ELSE IF o.v \in DOMAIN types
     THEN Resolved(TRUE, "none", o.r, o.v, Some(types[o.v]))
     ELSE Resolved(FALSE, "UnknownType", o.r, o.v, None)
     : o \in load_u32(r)}

\* PropertyClass::object_identity
object_identity(r) ==
    {IF ~o.ok THEN Resolved(FALSE, o.e, o.r, -1, None)
     ELSE IF o.v = 0 THEN Resolved(TRUE, "none", o.r, 0, None)
     ELSE IF o.v \in DOMAIN types
     THEN Resolved(TRUE, "none", o.r, o.v, Some(types[o.v]))
     ELSE Resolved(FALSE, "UnknownType", o.r, o.v, None)
     : o \in load_u32(r)}

----------------------------------------------------------------------------
(* Records of what the last call of each kind did.                         *)

NoFeed ==
    [called |-> FALSE, manual |-> FALSE, before |-> 0, ok |-> FALSE,
     e |-> "none", after |-> 0, len |-> 0, log |-> <<>>, over |-> "none",
     skipped |-> 0]
NoCall ==
    [valid |-> FALSE, ok |-> FALSE, e |-> "none", before |-> 0, after |-> 0,
     hash |-> -1, used |-> 0, shallow |-> FALSE, v |-> Empty]
NoProps ==
    [valid |-> FALSE, ok |-> FALSE, e |-> "none", shallow |-> FALSE,
     declared |-> 0, sum |-> 0, exceeded |-> FALSE, entries |-> 0,
     type_def |-> [name |-> "", properties |-> <<>>], object |-> EmptyMap,
     visited |-> <<>>, left |-> 0, at |-> 0]
NoEntry ==
    [valid |-> FALSE, property |-> "", type |-> "", flags |-> {},
     property_size |-> 0, advanced |-> 0, remaining |-> 0, e |-> "none",
     known |-> FALSE]
NoData ==
    [valid |-> FALSE, property |-> NoProperty, human |-> FALSE,
     kind |-> "",
     e |-> "none", raw |-> -1, v |-> Empty, fn |-> "", delta |-> "none",
     from |-> NewReader(0), to |-> NewReader(0)]
NoResult == [called |-> FALSE, ok |-> FALSE, e |-> "none", v |-> Empty]

ResultOk(v) == [called |-> TRUE, ok |-> TRUE, e |-> "none", v |-> v]
ResultErr(e) == [called |-> TRUE, ok |-> FALSE, e |-> e, v |-> Empty]

CallRecord(f, ok, e, after, len) ==
    [valid |-> TRUE, ok |-> ok, e |-> e, before |-> f.entry_limit,
     after |-> after, hash |-> f.hash, used |-> f.entry_len - len,
     shallow |-> options.shallow, v |-> IF ok THEN f.res ELSE Empty]

PropsRecord(f, ok, e) ==
    [valid |-> TRUE, ok |-> ok, e |-> e, shallow |-> options.shallow,
     declared |-> f.declared, sum |-> f.sum, exceeded |-> f.exceeded,
     entries |-> Cardinality(DOMAIN f.object), type_def |-> f.type_def,
     object |-> f.object, visited |-> f.visited, left |-> f.object_size,
     at |-> BitsLeft(reader)]

----------------------------------------------------------------------------
(* Construction.                                                           *)

\* DeserializerOptions::default().recursion_limit: u8::MAX / 2
DefaultLimit == 127

\* No leaf decoder was applied yet.
NoProbe == [op |-> "none"]

\* Deserializer::new(options, types), for options whose flags are in `fs`,
\* whose manual_compression is in `ms` and whose recursion_limit is in `ls`.
New(fs, ms, ls) ==
    /\ options \in [flags : fs,
                    property_mask : {Transmit},
                    shallow : BOOLEAN,
                    manual_compression : ms,
                    recursion_limit : ls]
    /\ configured = options.recursion_limit
    /\ probe = NoProbe
    /\ reader = NewReader(0)
    /\ stack = <<>>
    /\ err = "none"
    /\ result = NoResult
    /\ phase = "new"
    /\ calls = 0
    /\ fed = NoFeed
    /\ lastCall = NoCall
    /\ lastProps = NoProps
    /\ lastEntry = NoEntry
    /\ lastData = NoData

\* The flags that decide how the fed data is walked.  Every combination of
\* them is a configuration the walk is checked under; STATEFUL_FLAGS and
\* WITH_COMPRESSION only act in feed_data and are covered by InitFeed.
WalkFlags ==
    {a + b + c : a \in {0, COMPACT_LENGTH_PREFIXES},
                 b \in {0, HUMAN_READABLE_ENUMS},
                 c \in {0, FORBID_DELTA_ENCODE}}

\* The default recursion limit, under every way of walking.
Init == New(WalkFlags, {FALSE}, {DefaultLimit})

\* Small recursion limits, with the default flags.
InitLimit == New({0}, {FALSE}, 0 .. MaxLimit)

\* Every combination of SerializerFlags, with and without manual_compression.
InitFeed == New(0 .. AllSerializerFlags, BOOLEAN, {DefaultLimit})

----------------------------------------------------------------------------
(* Actions.                                                                *)

\* feed_data(data, scratch) with a `data` of n bytes.
FeedData ==
    /\ phase = "new"
    /\ \E n \in 0 .. MaxInputLen : \E o \in feed_data(options, n) :
        /\ options' = [options EXCEPT !.flags = o.flags]
        /\ reader' = IF o.ok THEN o.r ELSE reader
        /\ phase' = IF o.ok THEN "fed" ELSE "failed"
        /\ fed' = [called |-> TRUE, manual |-> options.manual_compression,
                   before |-> options.flags, ok |-> o.ok, e |-> o.e,
                   after |-> o.flags, len |-> o.r.len, log |-> o.log,
                   over |-> o.over, skipped |-> n - o.r.len]
    /\ UNCHANGED <<stack, err, result, calls, lastCall, lastProps, lastEntry,
                   lastData, configured, probe>>

\* A top-level call of deserialize().
Deserialize ==
    /\ phase = "fed"
    /\ stack = <<>>
    /\ calls < MaxCalls
    /\ stack' = <<DFrame("top", options.recursion_limit, ReaderLen(reader))>>
    /\ calls' = calls + 1
    /\ result' = NoResult
    /\ fed' = NoFeed
    /\ lastCall' = NoCall
    /\ lastProps' = NoProps
    /\ lastEntry' = NoEntry
    /\ lastData' = NoData
    /\ UNCHANGED <<options, reader, err, phase, configured, probe>>

Panic(message) ==
    /\ phase' = "panicked"
    /\ err' = message
    /\ UNCHANGED <<options, reader, stack, result, calls, fed, lastCall,
                   lastProps, lastEntry, lastData, configured, probe>>

\* check_recursion!, before the body: the decrement and the test.
CheckRecursion ==
    /\ Running
    /\ Top.pc = "check"
    /\ IF options.recursion_limit = 0
       THEN \/ Panic("attempt to subtract with overflow")
            \/ /\ options' = [options EXCEPT !.recursion_limit = U8Max]
               /\ stack' = SetTop(stack, [Top EXCEPT !.pc = "body"])
               /\ UNCHANGED <<reader, err, result, phase, calls, fed, lastCall,
                              lastProps, lastEntry, lastData, configured, probe>>
       ELSE /\ options' = [options EXCEPT !.recursion_limit = @ - 1]
            /\ IF options.recursion_limit - 1 = 0
               THEN err' = "RecursionLimit" /\ UNCHANGED stack
               ELSE /\ stack' = SetTop(stack, [Top EXCEPT !.pc = "body"])
                    /\ UNCHANGED err
            /\ UNCHANGED <<reader, result, phase, calls, fed, lastCall,
                           lastProps, lastEntry, lastData, configured, probe>>

\* The value a frame at "exit" returns.
ExitValue(f) == IF f.fn = "deserialize" THEN f.res ELSE List(f.list)

\* check_recursion!, after the body: the increment; then the Ok(..) return.
RestoreRecursion ==
    /\ Running
    /\ Top.pc = "exit"
    /\ \/ /\ options.recursion_limit = U8Max
          /\ Panic("attempt to add with overflow")
       \/ /\ options' = [options EXCEPT !.recursion_limit = (@ + 1) % (U8Max + 1)]
          /\ stack' = Return(stack, ExitValue(Top))
          /\ result' = IF Len(stack) = 1 THEN ResultOk(ExitValue(Top))
                       ELSE result
          /\ lastCall' = IF Top.fn = "deserialize"
                         THEN CallRecord(Top, TRUE, "none",
                                         options'.recursion_limit,
                                         ReaderLen(reader))
                         ELSE lastCall
          /\ UNCHANGED <<reader, err, phase, calls, fed, lastProps, lastEntry,
                         lastData, configured, probe>>

\* The error e starts to propagate from the top frame, with the reader at r.
Raise(e, r) ==
    /\ err' = e
    /\ reader' = r
    /\ UNCHANGED <<options, stack, result, phase, calls, fed, lastCall,
                   lastProps, lastEntry, lastData, configured, probe>>

\* The body of deserialize() up to the call of deserialize_properties.
Identity ==
    /\ Running
    /\ Top.fn = "deserialize"
    /\ Top.pc = "body"
    /\ \E id \in object_identity(reader) :
        IF ~id.ok
        THEN /\ err' = id.e
             /\ reader' = id.r
             /\ stack' = SetTop(stack, [Top EXCEPT !.hash = id.hash])
             /\ UNCHANGED <<options, result, phase, calls, fed, lastCall,
                            lastProps, lastEntry, lastData, configured, probe>>
        ELSE IF ~id.def.some
        THEN /\ stack' = SetTop(stack, [Top EXCEPT !.pc = "exit",
                                                   !.hash = id.hash,
                                                   !.res = Empty])
             /\ reader' = id.r
             /\ UNCHANGED <<options, err, result, phase, calls, fed, lastCall,
                            lastProps, lastEntry, lastData, configured, probe>>
        ELSE LET type_def == id.def.v
                 this == [Top EXCEPT !.pc = "wait", !.hash = id.hash,
                                     !.name = type_def.name]
             IN  IF options.shallow
                 THEN /\ stack' = Push(SetTop(stack, this),
                                       PFrame(type_def, 0,
                                              Masked(type_def.properties,
                                                     options.property_mask)))
                      /\ reader' = id.r
                      /\ UNCHANGED <<options, err, result, phase, calls, fed,
                                     lastCall, lastProps, lastEntry, lastData,
                                     configured, probe>>
                 ELSE \E object_size \in deserialize_u32(id.r) :
                        /\ reader' = object_size.r
                        /\ IF object_size.ok
                           THEN /\ stack' = Push(SetTop(stack, this),
                                                 PFrame(type_def,
                                                        object_size.v, <<>>))
                                /\ UNCHANGED err
                           ELSE /\ stack' = SetTop(stack, this)
                                /\ err' = object_size.e
                        /\ UNCHANGED <<options, result, phase, calls, fed,
                                       lastCall, lastProps, lastEntry,
                                       lastData, configured, probe>>

\* What the frame `f` does with the outcome `step` of deserialize_property
\* or deserialize_data, called with the reader at r0.
Dispatch(step, f, r0) ==
    /\ lastData' = [valid |-> TRUE, property |-> f.property,
                    human |-> Contains(options.flags, HUMAN_READABLE_ENUMS),
                    kind |-> step.kind, e |-> step.e, raw |-> step.raw,
                    v |-> step.v, fn |-> f.fn, delta |-> step.delta,
                    from |-> r0, to |-> step.r]
    /\ CASE step.kind = "val" ->
                /\ stack' = SetTop(stack, Deliver(f, step.v))
                /\ reader' = step.r
                /\ UNCHANGED <<err, phase>>
         [] step.kind = "err" ->
                /\ stack' = SetTop(stack, f)
                /\ reader' = step.r
                /\ err' = step.e
                /\ UNCHANGED phase
         [] step.kind = "list" ->
                /\ stack' = Push(SetTop(stack, f), LFrame(f.property))
                /\ reader' = step.r
                /\ UNCHANGED <<err, phase>>
         [] step.kind = "call" ->
                /\ stack' = Push(SetTop(stack, f),
                                 DFrame(step.e, options.recursion_limit,
                                        ReaderLen(step.r)))
                /\ reader' = step.r
                /\ UNCHANGED <<err, phase>>
         [] step.kind = "panic" ->
                /\ phase' = "panicked"
                /\ err' = "called Option::unwrap() on a None value"
                /\ UNCHANGED <<stack, reader>>
    /\ UNCHANGED <<options, result, calls, fed, lastCall, lastProps,
                   lastEntry, configured, probe>>

\* deserialize_properties returns Ok(object).
PropertiesReturn ==
    /\ stack' = Return(stack, Top.object)
    /\ lastProps' = PropsRecord(Top, TRUE, "none")
    /\ UNCHANGED <<options, reader, err, result, phase, calls, fed, lastCall,
                   lastEntry, lastData, configured, probe>>

\* The head of the loop of deserialize_properties, up to the point where
\* deserialize_property has a value, fails or calls.
PropertiesLoop ==
    /\ Running
    /\ Top.fn = "deserialize_properties"
    /\ Top.pc = "loop"
    /\ IF options.shallow
       THEN IF Top.todo = <<>>
            THEN PropertiesReturn
            ELSE \E step \in deserialize_property(reader, options.flags,
                                                  Head(Top.todo)) :
                    Dispatch(step, [Top EXCEPT !.pc = "wait",
                                               !.property = Head(Top.todo),
                                               !.head = BitsLeft(reader),
                                               !.start = BitsLeft(reader)],
                             reader)
       ELSE IF Top.object_size > 0
            THEN \E property_size \in deserialize_u32(reader) :
                 IF ~property_size.ok
                 THEN Raise(property_size.e, property_size.r)
                 ELSE \E property_hash \in deserialize_u32(property_size.r) :
                      IF ~property_hash.ok
                      THEN Raise(property_hash.e, property_hash.r)
                      ELSE LET property ==
                                   FindProperty(Top.type_def.properties,
                                                property_hash.v)
                           IN  IF ~property.some
                               THEN Raise("UnknownProperty", property_hash.r)
                               ELSE \E step \in deserialize_property(
                                        property_hash.r, options.flags,
                                        property.v) :
                                    Dispatch(step,
                                        [Top EXCEPT
                                           !.pc = "wait",
                                           !.previous_buf_len = ReaderLen(reader),
                                           !.property_size = property_size.v,
                                           !.property = property.v,
                                           !.sum = @ + property_size.v,
                                           !.exceeded = @ \/ property_size.v
                                                            > Top.object_size,
                                           !.head = BitsLeft(reader),
                                           !.start =
                                               BitsLeft(property_hash.r)],
                                        property_hash.r)
            ELSE PropertiesReturn

\* Size expectations with a wrapping subtraction in place of checked_sub.
size_failure_wrapping(actual_size, property_size, object_size) ==
    IF actual_size # property_size THEN "PropertySize" ELSE "none"

\* Size expectations that only reject a value longer than declared.
size_failure_longer(actual_size, property_size, object_size) ==
    IF actual_size > property_size THEN "PropertySize"
    ELSE IF property_size > object_size THEN "ObjectSizeMismatch"
    ELSE "none"

\* Size expectations without the comparison of the sizes.
size_failure_unsized(actual_size, property_size, object_size) ==
    IF property_size > object_size THEN "ObjectSizeMismatch" ELSE "none"

\* "Validate the size expectations" and the checked_sub of the exhaustive
\* walk: the error the entry ends with, or "none".
size_failure(actual_size, property_size, object_size) ==
    IF actual_size # property_size THEN "PropertySize"
    ELSE IF property_size > object_size THEN "ObjectSizeMismatch"
    ELSE "none"

\* The rest of the loop body of deserialize_properties, once the value of
\* the property is there.
PropertiesGot ==
    /\ Running
    /\ Top.fn = "deserialize_properties"
    /\ Top.pc = "got"
    /\ LET inserted == [Top EXCEPT
                           !.pc = "loop",
                           !.object = MapInsert(@, Top.property.name, Top.value),
                           !.visited =
                               Append(@, [name |-> Top.property.name,
                                          head |-> Top.head,
                                          start |-> Top.start,
                                          to |-> BitsLeft(reader),
                                          v |-> Top.value])]
           actual_size == Top.previous_buf_len - ReaderLen(reader)
           failure == size_failure(actual_size, Top.property_size,
                                   Top.object_size)
       IN  IF options.shallow
           THEN /\ stack' = SetTop(stack, [inserted EXCEPT !.todo = Tail(@)])
                /\ UNCHANGED <<err, lastEntry>>
           ELSE /\ lastEntry' =
                      [valid |-> TRUE, property |-> Top.property.name,
                       type |-> Top.property.type,
                       flags |-> Top.property.flags,
                       property_size |-> Top.property_size,
                       advanced |-> actual_size,
                       remaining |-> Top.object_size, e |-> failure,
                       known |-> Top.property.name \in DOMAIN Top.object]
                /\ IF failure # "none"
                   THEN err' = failure /\ UNCHANGED stack
                   ELSE /\ stack' = SetTop(stack,
                              [inserted EXCEPT
                                  !.object_size = @ - Top.property_size])
                        /\ UNCHANGED err
    /\ UNCHANGED <<options, reader, result, phase, calls, fed, lastCall,
                   lastProps, lastData, configured, probe>>

\* deserialize_list up to check_recursion!: the length prefix.
ListLen ==
    /\ Running
    /\ Top.fn = "deserialize_list"
    /\ Top.pc = "len"
    /\ \E len \in read_seq_len(reader, options.flags) :
        IF ~len.ok
        THEN Raise(len.e, len.r)
        ELSE /\ stack' = SetTop(stack, [Top EXCEPT !.pc = "check",
                                                   !.len = len.v])
             /\ reader' = len.r
             /\ UNCHANGED <<options, err, result, phase, calls, fed, lastCall,
                            lastProps, lastEntry, lastData, configured, probe>>

\* One round of the loop of deserialize_list.
ListLoop ==
    /\ Running
    /\ Top.fn = "deserialize_list"
    /\ Top.pc = "body"
    /\ IF Top.i < Top.len
       THEN \E step \in deserialize_data(reader, options.flags, Top.property) :
                Dispatch(step, Top, reader)
       ELSE /\ stack' = SetTop(stack, [Top EXCEPT !.pc = "exit"])
            /\ UNCHANGED <<options, reader, err, result, phase, calls, fed,
                           lastCall, lastProps, lastEntry, lastData,
                           configured, probe>>

\* `?` and bail!: the top frame returns the error to its caller.
Unwind ==
    /\ phase = "fed"
    /\ err # "none"
    /\ stack # <<>>
    /\ stack' = Pop(stack)
    /\ lastCall' = IF Top.fn = "deserialize"
                   THEN CallRecord(Top, FALSE, err, options.recursion_limit,
                                   ReaderLen(reader))
                   ELSE lastCall
    /\ lastProps' = IF Top.fn = "deserialize_properties"
                    THEN PropsRecord(Top, FALSE, err)
                    ELSE lastProps
    /\ IF Len(stack) = 1
       THEN result' = ResultErr(err) /\ err' = "none"
       ELSE UNCHANGED <<result, err>>
    /\ UNCHANGED <<options, reader, phase, calls, fed, lastEntry, lastData,
                   configured, probe>>

Next ==
    \/ FeedData
    \/ Deserialize
    \/ CheckRecursion
    \/ Identity
    \/ PropertiesLoop
    \/ PropertiesGot
    \/ ListLen
    \/ ListLoop
    \/ RestoreRecursion
    \/ Unwind

Spec == Init /\ [][Next]_vars

\* The walk under small recursion limits.
SpecLimit == InitLimit /\ [][Next]_vars

\* The steps of a call of deserialize() that is under way.  The call runs on
\* the caller's thread without waiting for anything, so a step that can be
\* taken is taken.
Walk ==
    \/ CheckRecursion
    \/ Identity
    \/ PropertiesLoop
    \/ PropertiesGot
    \/ ListLen
    \/ ListLoop
    \/ RestoreRecursion
    \/ Unwind

\* The walk in both modes, with the default and with the compact lengths.
InitWalk == New({0, COMPACT_LENGTH_PREFIXES}, {FALSE}, {DefaultLimit})

\* The walk, with calls that run on once they are made.
SpecWalk == InitWalk /\ [][Next]_vars /\ WF_vars(Walk)

\* feed_data alone, over every configuration.
NextFeed == FeedData

SpecFeed == InitFeed /\ [][NextFeed]_vars

----------------------------------------------------------------------------
(* The exhaustive walk on given streams.                                   *)

\* The four bytes of a u32, little-endian.
LE32(v) ==
    <<v % 256, (v \div 256) % 256, (v \div 65536) % 256, v \div 16777216>>

\* One property of an exhaustive stream with a payload of one byte: the size
\* 9, the hash and the byte.
Round(hash, byte) == LE32(9) \o LE32(hash) \o <<byte>>

\* The hashes and the payloads of the rounds: m_flag of class Node, m_kind,
\* m_gone and m_owner of class Leaf.
RoundHashes == {1, 9, 11}
RoundBytes == {0, 1}

\* The streams of up to n rounds.
RECURSIVE Rounds(_)
Rounds(n) ==
    IF n = 0 THEN {<<>>}
    ELSE LET shorter == Rounds(n - 1)
         IN  shorter \cup {rs \o Round(h, b) : rs \in shorter,
                                                h \in RoundHashes,
                                                b \in RoundBytes}

\* An object in exhaustive mode: the type hash, object_size and the rounds;
\* object_size is the length of the rounds, or one more.
Streams ==
    {LE32(t) \o LE32(Len(rs) + more) \o rs :
        t \in {1, 2}, rs \in Rounds(MaxRounds), more \in {0, 1}}

\* feed_data(data, scratch) with one of the streams as `data`; without
\* STATEFUL_FLAGS and compression the reader is put over `data` as it is.
FeedGiven ==
    /\ phase = "new"
    /\ \E data \in Streams : \E o \in feed_data(options, Len(data)) :
        /\ o.ok
        /\ o.r = NewReader(Len(data))
        /\ options' = [options EXCEPT !.flags = o.flags]
        /\ reader' = ReaderOver(data)
        /\ phase' = "fed"
        /\ fed' = [called |-> TRUE, manual |-> options.manual_compression,
                   before |-> options.flags, ok |-> o.ok, e |-> o.e,
                   after |-> o.flags, len |-> o.r.len, log |-> o.log,
                   over |-> o.over, skipped |-> 0]
    /\ UNCHANGED <<stack, err, result, calls, lastCall, lastProps, lastEntry,
                   lastData, configured, probe>>

\* The exhaustive walk with the default flags.
InitGiven == New({0}, {FALSE}, {DefaultLimit}) /\ ~options.shallow

NextGiven ==
    \/ FeedGiven
    \/ Next

\* The walk over fed data and over the given streams.
SpecGiven == InitGiven /\ [][NextGiven]_vars

----------------------------------------------------------------------------
(* The leaf decoders on given buffers.                                     *)

\* The single bytes.
Bytes == 0 .. U8Max

\* Four-byte prefixes; a length read as a plain u32 stays below 2^31.
Words(flags) ==
    {<<b0, b1, b2, b3>> :
        b0 \in {0, 1, 3, 254, 255}, b1 \in {0, 1, 255}, b2 \in {0, 255},
        b3 \in IF Contains(flags, COMPACT_LENGTH_PREFIXES)
               THEN {0, 1, 127, 255} ELSE {0, 1, 127}}

\* The readers a length is read from: at the start of a buffer, or one bit
\* into a byte that precedes it.
LengthReaders(flags) ==
    LET buffers == {<<>>} \cup {<<b>> : b \in Bytes} \cup Words(flags)
    IN  {ReaderOver(bytes) : bytes \in buffers}
            \cup {[bytes |-> <<1>> \o bytes, pos |-> 1] : bytes \in buffers}

\* read_str_len() or read_seq_len() on a given buffer.
ReadLength ==
    /\ probe.op = "none"
    /\ \E op \in {"read_str_len", "read_seq_len"},
          flags \in {0, COMPACT_LENGTH_PREFIXES} :
       \E r \in LengthReaders(flags) :
       \E out \in IF op = "read_str_len" THEN read_str_len(r, flags)
                  ELSE read_seq_len(r, flags) :
            probe' = [op |-> op, flags |-> flags, reader |-> r, out |-> out]
    /\ UNCHANGED <<options, reader, stack, err, result, phase, calls, fed,
                   lastCall, lastProps, lastEntry, lastData, configured>>

\* The type names of the bit integers.
BitTypes ==
    {"bi2", "bi3", "bi4", "bi5", "bi6", "bi7", "s24",
     "bui2", "bui3", "bui4", "bui5", "bui6", "bui7", "u24"}

\* The buffers a bit integer of type ty is read from: every byte for the
\* widths below 8, three bytes for the width 24.
BitBuffers(ty) ==
    IF BitWidth(ty) = 24
    THEN {<<b0, b1, b2>> : b0 \in {0, 1, U8Max}, b1 \in {0, U8Max},
                           b2 \in {0, 1, 127, 128, 129, U8Max}}
    ELSE {<<b>> : b \in Bytes}

\* deserialize_simple_data(ty) for a bit-integer type on a given buffer.
BitInteger ==
    /\ probe.op = "none"
    /\ \E ty \in BitTypes :
       \E bytes \in BitBuffers(ty) :
       \E out \in deserialize_simple_data(ReaderOver(bytes), options.flags,
                                          ty) :
            probe' = [op |-> "bits", ty |-> ty, reader |-> ReaderOver(bytes),
                      out |-> out]
    /\ UNCHANGED <<options, reader, stack, err, result, phase, calls, fed,
                   lastCall, lastProps, lastEntry, lastData, configured>>

InitCodec == New({0}, {FALSE}, {DefaultLimit})

NextCodec ==
    \/ ReadLength
    \/ BitInteger

\* The length codec and the bit integers, each applied once to a buffer.
SpecCodec == InitCodec /\ [][NextCodec]_vars

----------------------------------------------------------------------------
(* Properties.                                                             *)

\* The calls of deserialize()/deserialize_list() that are past the check of
\* check_recursion! and have not returned.
Depth ==
    Cardinality({i \in 1 .. Len(stack) :
                    /\ stack[i].fn \in {"deserialize", "deserialize_list"}
                    /\ stack[i].pc \notin {"len", "check"}})

\* C1: every call of deserialize() that has returned, with a value or with
\* an error, left options.recursion_limit at the value it had on entry.
C1_CounterRestored ==
    lastCall.valid => lastCall.after = lastCall.before

\* C2: the number of active deserialize()/deserialize_list() calls never
\* exceeds the configured recursion_limit, the counter stays within
\* 0 .. configured, and the decrement never underflows.
C2_DepthBounded ==
    /\ Depth <= configured
    /\ options.recursion_limit \in 0 .. configured
    /\ ~(phase = "panicked" /\ err = "attempt to subtract with overflow")

\* C3: deserialize() is called from deserialize_data only after
\* deserialize_simple_data failed with NotSimple; every call of
\* deserialize() on the stack is the top-level one or such a fallback.
C3_FallbackOnlyOnNotSimple ==
    \A i \in 1 .. Len(stack) :
        stack[i].fn = "deserialize" => stack[i].cause \in {"top", "NotSimple"}

\* The error a finished or failing walk ends with is the one recorded.
Propagates(e) ==
    IF stack # <<>> THEN err = e ELSE result = ResultErr(e)

\* C4, as stated: in exhaustive mode a successful deserialize_properties
\* read property sizes that sum to the declared object_size, and a walk that
\* read a property_size above the size still remaining failed with
\* ObjectSizeMismatch.
C4_AsStated ==
    lastProps.valid /\ ~lastProps.shallow =>
        /\ lastProps.ok => lastProps.sum = lastProps.declared
        /\ lastProps.exceeded =>
               ~lastProps.ok /\ lastProps.e = "ObjectSizeMismatch"

\* C4, amended: in exhaustive mode a successful deserialize_properties read
\* property sizes that sum to the declared object_size; a walk that read a
\* property_size above the size still remaining returns no mapping, and it
\* fails with ObjectSizeMismatch exactly when the value of that property
\* decoded and advanced the reader by property_size bytes.
C4_SizesBalance ==
    /\ lastProps.valid /\ ~lastProps.shallow =>
        /\ lastProps.ok => lastProps.sum = lastProps.declared
        /\ lastProps.exceeded => ~lastProps.ok
        /\ lastProps.e = "ObjectSizeMismatch" => lastProps.exceeded
    /\ lastEntry.valid =>
        /\ lastEntry.e = "ObjectSizeMismatch" <=>
               /\ lastEntry.property_size > lastEntry.remaining
               /\ lastEntry.advanced = lastEntry.property_size
        /\ lastEntry.e = "ObjectSizeMismatch" =>
               Propagates("ObjectSizeMismatch")

\* An exhaustive walk of at least one property has returned a mapping.
C4_Witness ==
    /\ lastProps.valid /\ lastProps.ok /\ ~lastProps.shallow
    /\ lastProps.entries > 0
    /\ lastProps.sum = lastProps.declared

\* The bytes of a value of a fixed-width type.
PayloadBytes(type) ==
    CASE type = "enum Kind" -> 4
      [] type = "Mask" -> 4
      [] type = "unsigned char" -> 1
      [] type = "class Size<int>" -> 8
      [] OTHER -> -1

\* C5: in exhaustive mode every entry whose value decoded is checked: the
\* bytes the reader advanced over the size field, the hash field and the
\* payload are compared with property_size, and the walk fails with
\* PropertySize when they differ and returns no mapping; a 4-byte payload
\* advances 12 bytes, so property_size 12 passes and 11 is rejected.
C5_PropertySizeChecked ==
    lastEntry.valid =>
        /\ lastEntry.e = "PropertySize" <=>
               lastEntry.advanced # lastEntry.property_size
        /\ lastEntry.e = "PropertySize" => Propagates("PropertySize")
        /\ /\ PayloadBytes(lastEntry.type) >= 0
           /\ ~Contains(options.flags, HUMAN_READABLE_ENUMS)
           => lastEntry.advanced = 8 + PayloadBytes(lastEntry.type)
        /\ /\ PayloadBytes(lastEntry.type) = 4
           /\ ~Contains(options.flags, HUMAN_READABLE_ENUMS)
           => /\ lastEntry.property_size = 12 => lastEntry.e # "PropertySize"
              /\ lastEntry.property_size = 11 => lastEntry.e = "PropertySize"

\* A 4-byte payload with property_size 11 was rejected.
C5_Witness ==
    /\ lastEntry.valid
    /\ PayloadBytes(lastEntry.type) = 4
    /\ lastEntry.property_size = 11
    /\ lastEntry.advanced = 12
    /\ lastEntry.e = "PropertySize"

\* The name of the first of `enum_options` whose value is Int(v), scanning
\* from the head; "" when there is none.
RECURSIVE FirstIntName(_, _)
FirstIntName(enum_options, v) ==
    IF enum_options = <<>> THEN ""
    ELSE IF Head(enum_options).int /\ Head(enum_options).v = v
    THEN Head(enum_options).name
    ELSE FirstIntName(Tail(enum_options), v)

\* The bit positions set in v, for v below 2^31.
SetBits(v) == {b \in 0 .. 30 : (v \div 2 ^ b) % 2 = 1}

\* The names of the bits of `todo`, in increasing position, joined by " | ".
RECURSIVE JoinBits(_, _)
JoinBits(todo, enum_options) ==
    IF todo = {} THEN ""
    ELSE LET b == Min(todo)
             name == FirstIntName(enum_options, 2 ^ b)
         IN  IF todo = {b} THEN name
             ELSE name \o " | " \o JoinBits(todo \ {b}, enum_options)

\* deserialize_data has decoded, or failed to decode, a u32 of a property
\* with the flag `kind` ("ENUM", or "BITS" without ENUM), with
\* HUMAN_READABLE_ENUMS clear.
DecodedInt(kind) ==
    /\ lastData.valid
    /\ lastData.kind \in {"val", "err"}
    /\ lastData.raw >= 0
    /\ ~lastData.human
    /\ kind \in lastData.property.flags
    /\ kind = "BITS" => "ENUM" \notin lastData.property.flags

\* C6: with HUMAN_READABLE_ENUMS clear, a BITS property whose u32 has k >= 1
\* set bits, each of them a named variant, decodes to the Enum string of
\* those k names in increasing bit position with one " | " between
\* consecutive names and no other separator.
C6_BitsJoined ==
    /\ DecodedInt("BITS")
    /\ SetBits(lastData.raw) # {}
    /\ \A b \in SetBits(lastData.raw) :
           FirstIntName(lastData.property.enum_options, 2 ^ b) # ""
    => /\ lastData.kind = "val"
       /\ lastData.v =
              Enum(JoinBits(SetBits(lastData.raw),
                            lastData.property.enum_options))

\* C7: with HUMAN_READABLE_ENUMS clear, an ENUM property whose u32 is v
\* decodes to Enum("<property.type>::<name>") for the first option whose
\* value is Int(v), and fails with UnknownEnumVariant when no option is
\* Int(v).
C7_EnumVariant ==
    DecodedInt("ENUM") =>
        LET name == FirstIntName(lastData.property.enum_options, lastData.raw)
        IN  IF name # ""
            THEN /\ lastData.kind = "val"
                 /\ lastData.v =
                        Enum(lastData.property.type \o "::" \o name)
            ELSE /\ lastData.kind = "err"
                 /\ lastData.e = "UnknownEnumVariant"

\* The value 1, which two options carry, decoded to the first of them.
C7_Witness ==
    /\ DecodedInt("ENUM")
    /\ lastData.raw = 1
    /\ lastData.v = Enum("enum Kind::Red")

\* C10: a deserialize() that read its identity hash and returned: hash 0
\* gave Value::Empty and took exactly the 4 bytes of the hash; a non-zero
\* hash absent from the registry failed with UnknownType; a non-zero hash of
\* the registry, when a value is returned, gave an Object named after that
\* TypeDef.  A call that failed without a hash failed before reading one.
C10_Identity ==
    lastCall.valid =>
        /\ lastCall.hash = 0 =>
               lastCall.ok /\ lastCall.v = Empty /\ lastCall.used = 4
        /\ lastCall.hash > 0 /\ lastCall.hash \notin DOMAIN types =>
               ~lastCall.ok /\ lastCall.e = "UnknownType"
        /\ lastCall.hash \in DOMAIN types /\ lastCall.ok =>
               /\ lastCall.v.tag = "Object"
               /\ lastCall.v.name = types[lastCall.hash].name
        /\ lastCall.hash = -1 =>
               ~lastCall.ok /\ lastCall.e \in {"UnexpectedEof", "RecursionLimit"}
        /\ lastCall.ok => lastCall.hash \in {0} \cup DOMAIN types

\* An exhaustive call read the hash 0 and returned Empty.
C10_Witness ==
    /\ lastCall.valid /\ lastCall.ok /\ ~lastCall.shallow
    /\ lastCall.hash = 0
    /\ lastCall.v = Empty

\* The positions of the log of the last feed_data that read a `what`.
Reads(what) == {i \in DOMAIN fed.log : fed.log[i].what = what}

\* The decompression stage of the last feed_data left a trace in the log.
Staged == Reads("size") \cup Reads("zlib") # {}

\* C8: with manual_compression false, feed_data reads the outer stream in
\* this order: when STATEFUL_FLAGS is configured, first a u32 that replaces
\* options.flags, truncated to the five known bits; then one marker byte
\* exactly when the flags as they then stand contain WITH_COMPRESSION; the
\* decompression stage runs exactly when a marker was read and is not 0,
\* and otherwise the reader is over the rest of the outer stream.
C8_FeedOrder ==
    fed.called /\ ~fed.manual =>
        LET log == fed.log
            stateful == Contains(fed.before, STATEFUL_FLAGS)
            k == IF stateful THEN 1 ELSE 0
            compressed == (fed.after \div WITH_COMPRESSION) % 2 = 1
            marked == Len(log) > k /\ log[k + 1].what = "marker"
        IN  /\ \A i \in DOMAIN log : log[i].from = "outer"
            /\ Reads("flags") \subseteq 1 .. k
            /\ Reads("marker") \subseteq {k + 1}
            /\ IF stateful /\ log = <<>>
               THEN ~fed.ok /\ fed.e = "UnexpectedEof"
                    /\ fed.after = fed.before
               ELSE /\ stateful =>
                        /\ log[1].what = "flags"
                        /\ fed.after = log[1].v % 32
                    /\ ~stateful => fed.after = fed.before
                    /\ marked => compressed
                    /\ compressed /\ ~marked =>
                           ~fed.ok /\ fed.e = "UnexpectedEof" /\ Len(log) = k
                    /\ IF marked /\ log[k + 1].v # 0
                       THEN /\ fed.ok => Staged /\ fed.over = "body"
                            /\ ~fed.ok =>
                                   fed.e \in {"UnexpectedEof", "Zlib",
                                              "CompressionSize"}
                            /\ ~Staged => fed.e = "UnexpectedEof"
                       ELSE /\ ~Staged
                            /\ marked \/ ~compressed =>
                                   /\ fed.ok
                                   /\ fed.over = "outer"
                                   /\ fed.skipped =
                                          4 * k + (IF marked THEN 1 ELSE 0)

\* The flags read from the stream switched WITH_COMPRESSION on, the marker
\* was read after them and was not 0, and the body was decompressed.
C8_Witness ==
    /\ fed.called /\ ~fed.manual /\ fed.ok
    /\ Contains(fed.before, STATEFUL_FLAGS)
    /\ ~Contains(fed.before, WITH_COMPRESSION)
    /\ Len(fed.log) = 4
    /\ fed.log[1].what = "flags" /\ fed.log[1].v >= 32
    /\ fed.log[2].what = "marker" /\ fed.log[2].v # 0
    /\ fed.over = "body"

\* C9: with manual_compression true, feed_data first runs the decompression
\* stage on the outer stream (a u32 size, then the zlib stream, failing with
\* CompressionSize when the produced length is not that size); only then,
\* when STATEFUL_FLAGS is configured, it reads a u32 from the start of the
\* body and assigns it, truncated to the known bits, to options.flags; the
\* outer stream is read neither for flags nor for a marker.
C9_ManualFeed ==
    fed.called /\ fed.manual =>
        LET log == fed.log
            stateful == Contains(fed.before, STATEFUL_FLAGS)
        IN  /\ Reads("marker") = {}
            /\ \A i \in Reads("flags") : i = 3 /\ log[i].from = "body"
            /\ IF log = <<>>
               THEN ~fed.ok /\ fed.e = "UnexpectedEof"
                    /\ fed.after = fed.before
               ELSE /\ Len(log) >= 2
                    /\ log[1].what = "size" /\ log[1].from = "outer"
                    /\ log[2].what = "zlib" /\ log[2].from = "outer"
                    /\ log[2].v = -1 =>
                           ~fed.ok /\ fed.e = "Zlib" /\ Len(log) = 2
                    /\ log[2].v >= 0 /\ log[2].v # log[1].v =>
                           ~fed.ok /\ fed.e = "CompressionSize"
                           /\ Len(log) = 2
                    /\ ~fed.ok => fed.after = fed.before
                    /\ log[2].v = log[1].v =>
                           IF ~stateful
                           THEN /\ fed.ok /\ Len(log) = 2
                                /\ fed.after = fed.before
                                /\ fed.over = "body" /\ fed.len = log[2].v
                           ELSE IF log[2].v < 4
                           THEN ~fed.ok /\ fed.e = "UnexpectedEof"
                                /\ Len(log) = 2
                           ELSE /\ fed.ok /\ Len(log) = 3
                                /\ log[3].what = "flags"
                                /\ fed.after = log[3].v % 32
                                /\ fed.over = "body"
                                /\ fed.len = log[2].v - 4

\* A body of the declared size was decompressed and its first u32, with
\* bits beyond the known five, became the flags.
C9_Witness ==
    /\ fed.called /\ fed.manual /\ fed.ok
    /\ Len(fed.log) = 3
    /\ fed.log[2].v = fed.log[1].v
    /\ fed.log[3] = Took("flags", "body", 1073741855)
    /\ fed.after = 31

\* The outcome `step` is one that decoding the property's value (list or
\* data) has with the reader at r.
DecodedFrom(r) ==
    IF lastData.property.dynamic
    THEN lastData.kind = "list" /\ lastData.to = r
    ELSE \E step \in deserialize_data(r, options.flags, lastData.property) :
            /\ step.kind = lastData.kind /\ step.v = lastData.v
            /\ step.e = lastData.e /\ step.r = lastData.to

\* C11: deserialize_property reads one presence bit first exactly for a
\* DELTA_ENCODE property; a 0 bit gives Value::Empty with nothing further
\* read when FORBID_DELTA_ENCODE is clear and fails with MissingDelta when
\* it is set; after a 1 bit, and for a property without DELTA_ENCODE from
\* the start, the value (list or data) is decoded normally.
C11_Delta ==
    lastData.valid /\ lastData.fn = "deserialize_properties" =>
        LET delta == "DELTA_ENCODE" \in lastData.property.flags
            forbid == (options.flags \div FORBID_DELTA_ENCODE) % 2 = 1
            used == BitsLeft(lastData.from) - BitsLeft(lastData.to)
        IN  /\ ~delta <=> lastData.delta = "none"
            /\ ~delta => DecodedFrom(lastData.from)
            /\ lastData.delta = "eof" =>
                   /\ BitsLeft(lastData.from) = 0
                   /\ lastData.kind = "err" /\ lastData.e = "UnexpectedEof"
            /\ delta /\ BitsLeft(lastData.from) = 0 => lastData.delta = "eof"
            /\ lastData.delta = "absent" /\ ~forbid =>
                   /\ lastData.kind = "val" /\ lastData.v = Empty
                   /\ used = 1
            /\ lastData.delta = "absent" /\ forbid =>
                   /\ lastData.kind = "err" /\ lastData.e = "MissingDelta"
            /\ lastData.delta = "present" =>
                   \E bit \in read_bit(lastData.from) :
                       bit.ok /\ DecodedFrom(bit.r)

\* A DELTA_ENCODE property was absent and decoded to Empty after one bit.
C11_Witness ==
    /\ lastData.valid /\ lastData.fn = "deserialize_properties"
    /\ "DELTA_ENCODE" \in lastData.property.flags
    /\ lastData.delta = "absent"
    /\ lastData.kind = "val" /\ lastData.v = Empty
    /\ BitsLeft(lastData.from) - BitsLeft(lastData.to) = 1

\* The exact names of the leaf-decoder table.
LeafNames ==
    {"bool", "char", "unsigned char", "short", "unsigned short", "wchar_t",
     "int", "long", "unsigned int", "unsigned long", "float", "double",
     "unsigned __int64", "gid", "union gid",
     "bi2", "bi3", "bi4", "bi5", "bi6", "bi7", "s24",
     "bui2", "bui3", "bui4", "bui5", "bui6", "bui7", "u24",
     "std::string", "char*", "std::wstring", "wchar_t*",
     "class Color", "class Vector3D", "class Quaternion", "class Euler",
     "class Matrix3x3"}

\* ty is an entry of the table: an exact name, or a well-formed
\* `class Size<T>`, `class Point<T>` or `class Rect<T>` over an exact name.
IsLeaf(ty) ==
    \/ ty \in LeafNames
    \/ \E p \in {"class Size", "class Point", "class Rect"}, t \in LeafNames :
           ty = p \o "<" \o t \o ">"

\* C12: for a property without BITS/ENUM whose type name is no entry of the
\* leaf-decoder table, deserialize_simple_data fails with NotSimple without
\* consuming input, so that deserialize_data reaches the nested-object
\* fallback; this includes "class SizeInfo".
C12_NotSimple ==
    /\ lastData.valid
    /\ lastData.kind # "list"
    /\ lastData.property.flags \cap {"BITS", "ENUM"} = {}
    /\ lastData.delta = "none"
    /\ ~IsLeaf(lastData.property.type)
    => /\ lastData.kind = "call"
       /\ lastData.e = "NotSimple"
       /\ lastData.to = lastData.from
       /\ phase # "panicked"

\* A length was read with COMPACT_LENGTH_PREFIXES set.
CompactProbe ==
    /\ probe.op \in {"read_str_len", "read_seq_len"}
    /\ probe.flags = COMPACT_LENGTH_PREFIXES

\* The bytes of the probed buffer from the byte boundary the read starts at.
ProbeBytes ==
    LET first == (probe.reader.pos + 7) \div 8 + 1
    IN  SubSeq(probe.reader.bytes, first, Len(probe.reader.bytes))

\* The bytes the probed read took, from that boundary on.
ProbeTook == ReaderLen(probe.reader) - ReaderLen(probe.out.r)

\* C13, as stated: with COMPACT_LENGTH_PREFIXES set, a single byte with the
\* high bit clear, 0b0LLLLLLL, decodes to the length L consuming exactly one
\* byte; 0x7F decodes to 127.
C13_AsStated ==
    CompactProbe /\ Len(ProbeBytes) = 1 /\ ProbeBytes[1] <= 127 =>
        /\ probe.out.ok
        /\ probe.out.v = ProbeBytes[1]
        /\ ProbeTook = 1

\* C13, amended: with COMPACT_LENGTH_PREFIXES set, read_str_len and
\* read_seq_len realign to a byte boundary and take the low bit of the next
\* byte as is_large.  When it is clear the length is the upper seven bits of
\* that byte: the byte 2 * L decodes to L in 0 .. 127 and one byte is taken.
\* When it is set the length is the upper 31 bits of the little-endian word
\* of four bytes: the word 2 * L + 1 decodes to L < 2^31 and four bytes are
\* taken; with fewer than four bytes left the read fails with UnexpectedEof.
C13_CompactLength ==
    CompactProbe =>
        LET b == ProbeBytes
        IN  IF b = <<>>
            THEN ~probe.out.ok /\ probe.out.e = "UnexpectedEof"
            ELSE IF b[1] % 2 = 0
            THEN /\ probe.out.ok
                 /\ probe.out.v = b[1] \div 2
                 /\ ProbeTook = 1
            ELSE IF Len(b) < 4
            THEN ~probe.out.ok /\ probe.out.e = "UnexpectedEof"
            ELSE /\ probe.out.ok
                 /\ probe.out.v = b[1] \div 2 + 128 * b[2] + 32768 * b[3]
                                      + 8388608 * b[4]
                 /\ ProbeTook = 4

\* The byte 0xFE, one bit into the buffer, was decoded to the length 127.
C13_Witness ==
    /\ CompactProbe
    /\ probe.reader.pos = 1
    /\ ProbeBytes = <<254>>
    /\ probe.out.ok /\ probe.out.v = 127

----------------------------------------------------------------------------
(* The shallow walk.                                                       *)

\* The names of a sequence of properties or of visited entries.
Names(seq) == [i \in DOMAIN seq |-> seq[i].name]

\* (p.flags & property_mask) == property_mask, and DEPRECATED not set.
Included(p) ==
    /\ \A flag \in options.property_mask : flag \in p.flags
    /\ "DEPRECATED" \notin p.flags

\* The included properties of a type, in declaration order.
Wanted(type_def) == SelectSeq(type_def.properties, Included)

\* The walks of deserialize_properties in progress.
Walks == {i \in DOMAIN stack : stack[i].fn = "deserialize_properties"}

\* Each value starts at the head of its round, and each round starts where
\* the value before it ended.
Adjacent(visited) ==
    /\ \A i \in DOMAIN visited : visited[i].start = visited[i].head
    /\ \A i \in DOMAIN visited :
           i > 1 => visited[i].head = visited[i - 1].to

\* C14: in shallow mode deserialize_properties decodes exactly the properties
\* whose flags contain every flag of property_mask and not DEPRECATED, in
\* declaration order, and reads no size or hash field between them; an
\* excluded property consumes no input and has no entry in the result.
C14_ShallowFilter ==
    options.shallow =>
        /\ \A i \in Walks :
               LET done == Names(stack[i].visited)
                   want == Names(Wanted(stack[i].type_def))
               IN  /\ Len(done) <= Len(want)
                   /\ done = SubSeq(want, 1, Len(done))
                   /\ Adjacent(stack[i].visited)
                   /\ DOMAIN stack[i].object
                          = {done[n] : n \in DOMAIN done}
        /\ lastProps.valid /\ lastProps.shallow /\ lastProps.ok =>
               LET want == Names(Wanted(lastProps.type_def))
               IN  /\ Names(lastProps.visited) = want
                   /\ Adjacent(lastProps.visited)
                   /\ DOMAIN lastProps.object
                          = {want[n] : n \in DOMAIN want}
                   /\ lastProps.visited # <<>> =>
                          lastProps.at
                              = lastProps.visited[Len(lastProps.visited)].to
                   /\ lastProps.sum = 0

\* A shallow walk of a type with a deprecated property and a property that
\* has only one flag of the mask returned with the included properties.
C14_Witness ==
    /\ lastProps.valid /\ lastProps.shallow /\ lastProps.ok
    /\ \E i \in DOMAIN lastProps.type_def.properties :
           "DEPRECATED" \in lastProps.type_def.properties[i].flags
    /\ \E i \in DOMAIN lastProps.type_def.properties :
           lastProps.type_def.properties[i].flags = {"PRIVILEGED_TRANSMIT"}
    /\ Len(lastProps.visited) >= 3
    /\ Len(lastProps.visited) < Len(lastProps.type_def.properties)

----------------------------------------------------------------------------
(* Bit integers on given buffers.                                          *)

BitProbe == probe.op = "bits"

SignedBitTypes == {"bi2", "bi3", "bi4", "bi5", "bi6", "bi7", "s24"}

\* The low n bits of the probed buffer, read as a little-endian number.
Pattern ==
    LET b == probe.reader.bytes
    IN  IF BitWidth(probe.ty) = 24
        THEN b[1] + 256 * b[2] + 65536 * b[3]
        ELSE b[1] % 2 ^ BitWidth(probe.ty)

\* C15: a bit integer of width n in {2 .. 7, 24} takes n bits.  The unsigned
\* types give the raw pattern v in 0 .. 2^n - 1 as Value::Unsigned; the signed
\* types give Value::Signed of v when bit n - 1 of v is clear and of v - 2^n
\* otherwise, a value of -2^(n-1) .. 2^(n-1) - 1 from which the pattern is
\* recovered as the value modulo 2^n.
C15_BitIntegers ==
    BitProbe =>
        LET n == BitWidth(probe.ty)
            v == Pattern
            out == probe.out
        IN  /\ out.ok
            /\ BitsLeft(probe.reader) - BitsLeft(out.r) = n
            /\ IF probe.ty \in SignedBitTypes
               THEN /\ out.v.tag = "Signed"
                    /\ out.v.i = IF v < 2 ^ (n - 1) THEN v ELSE v - 2 ^ n
                    /\ out.v.i >= -(2 ^ (n - 1))
                    /\ out.v.i <= 2 ^ (n - 1) - 1
                    /\ out.v.i % 2 ^ n = v
               ELSE /\ out.v = Unsigned(v)
                    /\ v >= 0 /\ v <= 2 ^ n - 1

\* The pattern 0x800000 was decoded as s24 to -2^23.
C15_Witness ==
    /\ BitProbe
    /\ probe.ty = "s24"
    /\ probe.reader.bytes = <<0, 0, 128>>
    /\ probe.out.ok /\ probe.out.v = Signed(-8388608)

----------------------------------------------------------------------------
(* Termination of the exhaustive walk.                                     *)

\* The exhaustive walks in progress.
Exhaustive == IF options.shallow THEN {} ELSE Walks

\* Every round that passed took at least 8 bytes, as many as its
\* property_size, and no more than were left of object_size; a walk is inside
\* a round only with object_size above 0, and between rounds object_size is
\* what was declared less the sizes of the rounds so far, and not negative.
Progress ==
    /\ lastEntry.valid /\ lastEntry.e = "none" =>
           /\ lastEntry.advanced >= 8
           /\ lastEntry.property_size = lastEntry.advanced
           /\ lastEntry.remaining >= lastEntry.property_size
    /\ \A i \in Exhaustive :
           LET f == stack[i]
           IN  /\ f.object_size >= 0
               /\ f.pc # "loop" => f.object_size > 0
               /\ \A n \in DOMAIN f.visited :
                      f.visited[n].head - f.visited[n].to >= 64
               /\ f.pc = "loop" /\ err = "none" =>
                      f.object_size = f.declared - f.sum
               /\ f.declared >= 8 * Len(f.visited)

\* The walk returned with object_size 0, or with an error.
Ended ==
    lastProps.valid /\ ~lastProps.shallow =>
        IF lastProps.ok THEN lastProps.left = 0 /\ lastProps.e = "none"
        ELSE lastProps.e # "none"

\* C16: the exhaustive walk always terminates.  Every round that does not
\* fail takes at least 8 bytes of input and reduces object_size by
\* property_size >= 8; no round starts once object_size is 0; the walk
\* returns with object_size exactly 0 or with an error; and every call of
\* deserialize() that was started comes to its end.
C16_Terminates ==
    /\ [](Progress /\ Ended)
    /\ (stack # <<>>) ~> (stack = <<>> \/ phase = "panicked")

\* An exhaustive walk of at least one round returned with object_size 0.
C16_Witness ==
    /\ lastProps.valid /\ ~lastProps.shallow /\ lastProps.ok
    /\ lastProps.visited # <<>>
    /\ lastProps.declared >= 8
    /\ lastProps.left = 0

----------------------------------------------------------------------------
(* One entry per property name.                                            *)

\* The place of the last visited entry of the given name.
LastOf(visited, name) ==
    CHOOSE i \in DOMAIN visited :
        /\ visited[i].name = name
        /\ \A j \in DOMAIN visited : visited[j].name = name => j <= i

\* The object holds one entry for each name decoded so far, with the value
\* decoded last for it, and no more entries than the type has properties.
OnePerName(type_def, object, visited) ==
    /\ DOMAIN object = {visited[i].name : i \in DOMAIN visited}
    /\ \A name \in DOMAIN object :
           object[name] = visited[LastOf(visited, name)].v
    /\ DOMAIN object
           \subseteq {type_def.properties[i].name
                          : i \in DOMAIN type_def.properties}
    /\ Cardinality(DOMAIN object) <= Len(type_def.properties)

\* C17: the mapping of deserialize_properties has at most one entry per
\* property name.  A round of the exhaustive walk for a property that is in
\* the mapping already raises no error of its own (it fails only as any round
\* does, on its sizes) and replaces the value, so the mapping keeps the value
\* decoded last; the entries never exceed the properties of the TypeDef.
C17_OnePerName ==
    /\ \A i \in Walks :
           OnePerName(stack[i].type_def, stack[i].object, stack[i].visited)
    /\ lastProps.valid =>
           /\ OnePerName(lastProps.type_def, lastProps.object,
                         lastProps.visited)
           /\ lastProps.entries = Cardinality(DOMAIN lastProps.object)
    /\ lastEntry.valid /\ lastEntry.known =>
           (lastEntry.e = "none" <=>
               /\ lastEntry.advanced = lastEntry.property_size
               /\ lastEntry.property_size <= lastEntry.remaining)

\* An exhaustive walk returned after two rounds for the same property with
\* different values, and the mapping has the second.
C17_Witness ==
    /\ lastProps.valid /\ ~lastProps.shallow /\ lastProps.ok
    /\ lastEntry.valid /\ lastEntry.known /\ lastEntry.e = "none"
    /\ \E i, j \in DOMAIN lastProps.visited :
           /\ i < j
           /\ lastProps.visited[i].name = lastProps.visited[j].name
           /\ lastProps.visited[i].v # lastProps.visited[j].v
           /\ j = LastOf(lastProps.visited, lastProps.visited[j].name)
           /\ lastProps.object[lastProps.visited[j].name]
                  = lastProps.visited[j].v
    /\ lastProps.entries < Len(lastProps.visited)

====
